---- MODULE Spec2Model ----
(***************************************************************************)
(* Model of the file API microservice (src/src/routes.js, pathUtils.js,    *)
(* app.js, middleware).  The disk is two roots, public/ and private/, each *)
(* holding folders that hold flat files.  Every route handler is a small   *)
(* state machine: its synchronous prefix (field checks, validatePath) runs *)
(* in Begin, and each awaited filesystem call is one step, so that the     *)
(* steps of concurrent requests interleave exactly where the event loop    *)
(* lets them.  Spec runs whole handlers one after the other; ConcSpec runs *)
(* two requests step by step against a disk prepared by uploads/mkdirs;    *)
(* ValidateSpec applies validatePath to every short string.                *)
(***************************************************************************)
EXTENDS Integers, Sequences, FiniteSets, TLC

VARIABLES fs, roots, pre, last, nops, procs, world0, lastPut, absent, arg, ret

vars == <<fs, roots, pre, last, nops, procs, world0, lastPut, absent, arg, ret>>

\* ------------------------------------------------------------------ bounds
\* Requests handled in one behaviour of Spec.
MaxOps == 3
\* Requests that prepare the disk before the two concurrent requests of ConcSpec.
MaxSetup == 2
\* Length of the strings validatePath is applied to in ValidateSpec.
MaxLen == 3

\* ------------------------------------------------------------------- names
\* A name is a sequence of one-character strings; the empty sequence stands
\* for a missing (undefined, null or empty: all falsy) request field.
NoName == << >>
X == <<"x">>
Y == <<"y">>
FA == <<"a">>
FB == <<"b", ".", "t">>
DotDot == <<".", ".">>
Folders == {X, Y}
Files == {FA, FB}
\* A filename validatePath accepts although it holds a separator (its part
\* before the first dot is "a"): path.join makes it the file a in the
\* sub-directory a.d of the folder.
Nested == <<"a", ".", "d", "/", "a">>
Names == Files \cup {Nested}
\* File contents: the identity of a byte string; 0 is "no such file".
Data == {1, 2}
Roots == {"public", "private"}
Procs == {"p1", "p2"}

\* The modelled members of the character class [a-zA-Z0-9_-].
SafeChars == {"a", "b", "x", "y", "t", "_", "-", "7", "A"}

safePatternUnanchored(s) == \E i \in 1..Len(s) : s[i] \in SafeChars

\* /^[a-zA-Z0-9_-]+$/.test(s)
safePattern(s) == Len(s) > 0 /\ \A i \in 1..Len(s) : s[i] \in SafeChars

includesDotDotNever(s) == FALSE

includesDotDotAtStart(s) == Len(s) >= 2 /\ s[1] = "." /\ s[2] = "."

\* s.includes('..')
includesDotDot(s) == \E i \in 1..(Len(s) - 1) : s[i] = "." /\ s[i + 1] = "."

\* s.startsWith('.')
startsWithDot(s) == Len(s) > 0 /\ s[1] = "."

\* path.isAbsolute(s) on POSIX
isAbsolute(s) == Len(s) > 0 /\ s[1] = "/"

\* s.split('.')[0]: the part of s before its first '.'
RECURSIVE splitBase(_)
splitBase(s) ==
  IF s = << >> \/ Head(s) = "." THEN << >> ELSE <<Head(s)>> \o splitBase(Tail(s))

\* validatePath(folder, filename): ok, or the message of the Error thrown.
validatePath(folder, filename) ==
  IF folder = NoName THEN [ok |-> FALSE, message |-> "Folder name is required"]
  ELSE IF isAbsolute(folder) \/ includesDotDot(folder) \/ startsWithDot(folder)
    THEN [ok |-> FALSE, message |-> "Invalid folder path"]
  ELSE IF ~safePattern(folder) THEN [ok |-> FALSE, message |-> "Invalid folder name"]
  ELSE IF filename = NoName
    THEN [ok |-> TRUE, message |-> "", folder |-> folder, filename |-> NoName]
  ELSE IF isAbsolute(filename) \/ includesDotDot(filename) \/ startsWithDot(filename)
    THEN [ok |-> FALSE, message |-> "Invalid file path"]
  ELSE IF ~safePattern(splitBase(filename))
    THEN [ok |-> FALSE, message |-> "Invalid filename"]
  ELSE [ok |-> TRUE, message |-> "", folder |-> folder, filename |-> filename]

\* buildPublicUrl(folder, filename): <base>/public/<folder>/<filename>, or the
\* trailing-slash form (an empty last component) without a filename.
NullUrl == << >>
buildPublicUrl(folder, filename) == <<"PUBLIC_URL", "public", folder, filename>>

\* --------------------------------------------------------------- the disk
\* A world is the disk: which roots exist, and per root and folder name a
\* directory (or none) with its files, and whether it has the sub-directory
\* a.d; files[Nested] is the file a inside that sub-directory.
NoDir == [exists |-> FALSE, subdir |-> FALSE, files |-> [n \in Names |-> 0]]
EmptyDir == [exists |-> TRUE, subdir |-> FALSE, files |-> [n \in Names |-> 0]]
Dirs ==
  [exists : {TRUE}, subdir : BOOLEAN, files : [Names -> Data \cup {0}]] \cup {NoDir}

World == [fs |-> fs, roots |-> roots]
EmptyWorld == [fs |-> [r \in Roots |-> [f \in Folders |-> NoDir]],
               roots |-> [r \in Roots |-> r = "public"]]

\* The expose flag as a request carries it, and the handler's boolean: the JSON
\* forms default a missing flag to false, the binary form compares the
\* X-Expose header with 'true'.
ExposeFlags == {"true", "false", "omitted"}
exposeOfOmittedTrue(flag) == flag # "false"
exposeOf(flag) == flag = "true"

baseDir(expose) == IF expose THEN "public" ELSE "private"
otherRoot(r) == IF r = "public" THEN "private" ELSE "public"

\* The name has a directory part: path.dirname(path.join(r, f, n)) is not r/f.
hasSeparator(n) == \E i \in 1..Len(n) : n[i] = "/"

\* The directory path.join(r, f, n) lies in is there.
parentExists(w, r, f, n) ==
  w.fs[r][f].exists /\ (hasSeparator(n) => w.fs[r][f].subdir)

\* fs.pathExists(path.join(r, f)) / fs.pathExists(path.join(r, f, n))
pathExists(w, r, f, n) ==
  IF n = NoName THEN w.fs[r][f].exists
  ELSE parentExists(w, r, f, n) /\ w.fs[r][f].files[n] # 0

ensureRootEmptied(w, r) ==
  [w EXCEPT !.roots[r] = TRUE, !.fs[r] = [f \in Folders |-> NoDir]]

\* fs.ensureDir(r): mkdir -p of a root
ensureRoot(w, r) == [w EXCEPT !.roots[r] = TRUE]

ensureDirEmptied(w, r, f) ==
  [w EXCEPT !.roots[r] = TRUE, !.fs[r][f].exists = TRUE,
            !.fs[r][f].files = [n \in DOMAIN w.fs[r][f].files |-> 0]]

\* fs.ensureDir(path.join(r, f)): mkdir -p, keeps an existing directory as it is
ensureDir(w, r, f) == [w EXCEPT !.roots[r] = TRUE, !.fs[r][f].exists = TRUE]

\* mkdirp(path.dirname(path.join(r, f, n))): the folder, and the
\* sub-directory when the name has a directory part.
mkdirpParent(w, r, f, n) ==
  IF hasSeparator(n) THEN [ensureDir(w, r, f) EXCEPT !.fs[r][f].subdir = TRUE]
  ELSE ensureDir(w, r, f)

\* fs.writeFile(path.join(r, f, n), d): creates or truncates the file; the
\* caller has checked that the directory exists (ENOENT otherwise).
writeFileNoReplace(w, r, f, n, d) ==
  IF w.fs[r][f].files[n] # 0 THEN w ELSE [w EXCEPT !.fs[r][f].files[n] = d]

writeFile(w, r, f, n, d) == [w EXCEPT !.fs[r][f].files[n] = d]

removePruning(w, r, f, n) ==
  IF n = NoName THEN [w EXCEPT !.fs[r][f] = NoDir]
  ELSE IF ~w.fs[r][f].exists THEN w
  ELSE IF \A k \in Names \ {n} : w.fs[r][f].files[k] = 0
    THEN [w EXCEPT !.fs[r][f] = NoDir]
  ELSE [w EXCEPT !.fs[r][f].files[n] = 0]

\* fs.remove(path): rm -rf, silent when the path is absent
remove(w, r, f, n) ==
  IF n = NoName THEN [w EXCEPT !.fs[r][f] = NoDir]
  ELSE IF w.fs[r][f].exists THEN [w EXCEPT !.fs[r][f].files[n] = 0]
  ELSE w

renameDirOtherRoot(w, r1, f1, r2, f2) ==
  [w EXCEPT !.fs = [[w.fs EXCEPT ![r1][f1] = NoDir]
                      EXCEPT ![otherRoot(r2)][f2] = w.fs[r1][f1]]]

renameDirContentLost(w, r1, f1, r2, f2) ==
  [w EXCEPT !.fs = [[w.fs EXCEPT ![r1][f1] = NoDir] EXCEPT ![r2][f2] = EmptyDir]]

\* rename(2) of a directory; the caller has checked source and destination.
renameDir(w, r1, f1, r2, f2) ==
  [w EXCEPT !.fs = [[w.fs EXCEPT ![r1][f1] = NoDir] EXCEPT ![r2][f2] = w.fs[r1][f1]]]

\* rename(2) of a file inside one directory, replacing the destination.
renameFile(w, r, f, n1, n2) ==
  [w EXCEPT !.fs[r][f].files =
     [[w.fs[r][f].files EXCEPT ![n1] = 0] EXCEPT ![n2] = w.fs[r][f].files[n1]]]

\* The files of a directory with their contents, as fs.readdir + fs.stat see them.
fileNames(w, r, f) == {n \in Files : w.fs[r][f].files[n] # 0}
folderNames(w, r) == {f \in Folders : w.fs[r][f].exists}

\* stats.size: the length of the byte string with identity d.
Size(d) == d

\* ------------------------------------------------------- requests, machines
\* A request, and around it the handler's position (pc), its local variables
\* and the response it has sent (status 0: none yet).
Req(op, type, folder, file, newName, expose, data) ==
  [op |-> op, type |-> type, folder |-> folder, file |-> file, newName |-> newName,
   expose |-> expose, data |-> data]

Machine(req, pc) ==
  [op |-> req.op, type |-> req.type, folder |-> req.folder, file |-> req.file,
   newName |-> req.newName, expose |-> req.expose, data |-> req.data,
   pc |-> pc, src |-> "none", found |-> FALSE, names |-> {}, names2 |-> {},
   nsteps |-> 0,
   status |-> 0, keys |-> {}, result |-> "", action |-> "",
   visibility |-> "absent", url |-> NullUrl,
   rfolder |-> NoName, rfile |-> NoName, message |-> "",
   content |-> 0, files |-> {}, folders |-> {}]

NoReq == Req("none", "", NoName, NoName, NoName, FALSE, 0)
Idle == Machine(NoReq, "idle")

Goto(m, pc) == [m EXCEPT !.pc = pc]

\* The keys of the JSON bodies; keys is empty while nothing is sent, and when
\* what is sent is a file's bytes.  result is the body's status key.
OkKeysNoUrl == {"status", "action", "visibility", "folder", "file", "message"}
OkKeys == {"status", "action", "visibility", "url", "folder", "file", "message"}
ErrKeys == {"status", "message"}

\* res.json({status: 'ok', action, visibility, url, folder, file, message})
Ok(m, action, visibility, url, rfolder, rfile, message) ==
  [m EXCEPT !.pc = "done", !.status = 200, !.keys = OkKeys, !.result = "ok",
            !.action = action,
            !.visibility = visibility, !.url = url, !.rfolder = rfolder,
            !.rfile = rfile, !.message = message]

\* res.status(code).json({status: 'error', message})
Err(m, code, message) ==
  [m EXCEPT !.pc = "done", !.status = code, !.keys = ErrKeys, !.result = "error",
            !.message = message]

\* catch (validationError): the inner try of every handler but listRoot turns
\* whatever is thrown inside it, filesystem errors included, into a 400 with
\* the error's own message.
Caught(m, message) == Err(m, 400, message)

visibilityOf(exposed) == IF exposed THEN "exposed" ELSE "hidden"
urlOfAlways(exposed, folder, file) == buildPublicUrl(folder, file)
urlOf(exposed, folder, file) == IF exposed THEN buildPublicUrl(folder, file) ELSE NullUrl

R(w, m) == [w |-> w, m |-> m]

\* ------------------------------------------------------------- fs.move
\* fs-extra's move(src, dest, {overwrite: true}) is not one filesystem call:
\* checkPaths stats source and destination (ENOENT without a source, an Error
\* when both are the same path), mkdirp makes the destination's parent,
\* remove(dest) clears the destination because of overwrite, and rename(2)
\* moves the source (ENOENT when it is gone, ENOTEMPTY onto a directory that
\* has got content since).  Each is awaited, so other requests run in between.
moveNoOverwrite == FALSE
moveOverwrite == TRUE

Loc(r, f, n) == [root |-> r, folder |-> f, file |-> n]
locExists(w, l) == pathExists(w, l.root, l.folder, l.file)

MoveStep(w, m, s, d, okm) ==
  CASE m.pc = "mvStat" ->
         IF ~locExists(w, s) THEN R(w, Caught(m, "ENOENT"))
         ELSE IF s = d
           THEN R(w, Caught(m, "Source and destination must not be the same."))
         ELSE R(w, Goto(m, "mvMkdirp"))
    [] m.pc = "mvMkdirp" ->
         R(IF d.file = NoName THEN ensureRoot(w, d.root)
           ELSE mkdirpParent(w, d.root, d.folder, d.file),
           Goto(m, "mvRemove"))
    [] m.pc = "mvRemove" ->
         IF moveOverwrite THEN R(remove(w, d.root, d.folder, d.file), Goto(m, "mvRename"))
         ELSE IF locExists(w, d) THEN R(w, Caught(m, "dest already exists."))
         ELSE R(w, Goto(m, "mvRename"))
    [] OTHER -> \* mvRename
         IF ~locExists(w, s) THEN R(w, Caught(m, "ENOENT"))
         ELSE IF d.file = NoName
           THEN IF fileNames(w, d.root, d.folder) # {} THEN R(w, Caught(m, "ENOTEMPTY"))
                ELSE R(renameDir(w, s.root, s.folder, d.root, d.folder), okm)
         ELSE IF ~parentExists(w, d.root, d.folder, d.file) THEN R(w, Caught(m, "ENOENT"))
         ELSE R(renameFile(w, s.root, s.folder, s.file, d.file), okm)

\* ---------------------------------------------------------------- upload
\* POST /upload (the JSON form; the binary form differs only in where the
\* fields come from): field checks and validatePath, then ensureDir, writeFile.
UploadBegin(req) ==
  IF req.folder = NoName \/ req.file = NoName \/ req.data = 0
    THEN Err(Machine(req, "done"), 400, "Missing required fields: folder, filename, base64")
  ELSE IF ~validatePath(req.folder, req.file).ok
    THEN Caught(Machine(req, "done"), validatePath(req.folder, req.file).message)
  ELSE Machine(req, "ensureDir")

UploadStepRetry(w, m) ==
  IF m.pc = "ensureDir"
    THEN R(ensureDir(w, baseDir(m.expose), m.folder), Goto(m, "writeFile"))
  ELSE IF ~pathExists(w, baseDir(m.expose), m.folder, NoName)
    THEN R(w, Goto(m, "ensureDir"))
  ELSE R(writeFile(w, baseDir(m.expose), m.folder, m.file, m.data),
         Ok(m, "file_uploaded", visibilityOf(m.expose),
            urlOf(m.expose, m.folder, m.file), m.folder, m.file, "File uploaded"))

UploadStep(w, m) ==
  IF m.pc = "ensureDir"
    THEN R(ensureDir(w, baseDir(m.expose), m.folder), Goto(m, "writeFile"))
  ELSE IF ~parentExists(w, baseDir(m.expose), m.folder, m.file)
    THEN R(w, Caught(m, "ENOENT"))
  ELSE R(writeFile(w, baseDir(m.expose), m.folder, m.file, m.data),
         Ok(m, "file_uploaded", visibilityOf(m.expose),
            urlOf(m.expose, m.folder, m.file), m.folder, m.file, "File uploaded"))

\* ----------------------------------------------------------------- mkdir
MkdirBegin(req) ==
  IF req.folder = NoName
    THEN Err(Machine(req, "done"), 400, "Folder name is required")
  ELSE IF ~validatePath(req.folder, NoName).ok
    THEN Caught(Machine(req, "done"), validatePath(req.folder, NoName).message)
  ELSE Machine(req, "ensureDir")

MkdirStep(w, m) ==
  R(ensureDir(w, baseDir(m.expose), m.folder),
    Ok(m, "folder_created", visibilityOf(m.expose),
       urlOf(m.expose, m.folder, NoName), m.folder, NoName, "Folder created"))

\* ---------------------------------------------------------------- delete
DeleteBegin(req) ==
  IF ~validatePath(req.folder, req.file).ok
    THEN Caught(Machine(req, "done"), validatePath(req.folder, req.file).message)
  ELSE Machine(req, "probePublic")

\* The file branch: the first root that holds the file is the one removed from.
DeleteFileStep(w, m) ==
  CASE m.pc = "probePublic" ->
         IF pathExists(w, "public", m.folder, m.file)
           THEN R(w, [Goto(m, "remove") EXCEPT !.src = "public"])
         ELSE R(w, Goto(m, "probePrivate"))
    [] m.pc = "probePrivate" ->
         IF pathExists(w, "private", m.folder, m.file)
           THEN R(w, [Goto(m, "remove") EXCEPT !.src = "private"])
         ELSE R(w, Err(m, 404, "File not found"))
    [] OTHER -> \* remove
         R(remove(w, m.src, m.folder, m.file),
           Ok(m, "file_deleted", "hidden", NullUrl, m.folder, m.file, "File deleted"))

\* The folder branch: both roots are probed, and each copy found is removed.
DeleteFolderReplyRetry(m, folderExists) ==
  IF folderExists
    THEN Ok(m, "folder_deleted", "hidden", NullUrl, m.folder, NoName,
            "Folder and contents deleted")
  ELSE IF m.nsteps < 3 THEN Goto(m, "probePublic")
  ELSE Err(m, 404, "Folder not found")

DeleteFolderReply(m, folderExists) ==
  IF folderExists
    THEN Ok(m, "folder_deleted", "hidden", NullUrl, m.folder, NoName,
            "Folder and contents deleted")
  ELSE Err(m, 404, "Folder not found")

\* After the public copy is removed the handler goes on to probe private/.
afterRemovePublicElseIf(m) == DeleteFolderReply(m, TRUE)
afterRemovePublic(m) == [Goto(m, "probePrivate") EXCEPT !.found = TRUE]

DeleteFolderStep(w, m) ==
  CASE m.pc = "probePublic" ->
         IF pathExists(w, "public", m.folder, NoName)
           THEN R(w, Goto(m, "removePublic"))
         ELSE R(w, Goto(m, "probePrivate"))
    [] m.pc = "removePublic" ->
         R(remove(w, "public", m.folder, NoName), afterRemovePublic(m))
    [] m.pc = "probePrivate" ->
         IF pathExists(w, "private", m.folder, NoName)
           THEN R(w, Goto(m, "removePrivate"))
         ELSE R(w, DeleteFolderReply(m, m.found))
    [] OTHER -> \* removePrivate
         R(remove(w, "private", m.folder, NoName), DeleteFolderReply(m, TRUE))

DeleteStep(w, m) ==
  IF m.file # NoName THEN DeleteFileStep(w, m) ELSE DeleteFolderStep(w, m)

\* ------------------------------------------------------ expose / unexpose
ToggleBegin(req) ==
  IF ~validatePath(req.folder, NoName).ok
    THEN Caught(Machine(req, "done"), validatePath(req.folder, NoName).message)
  ELSE Machine(req, IF req.op = "expose" THEN "probePrivate" ELSE "probePublic")

ExposeOkHidden(m) ==
  Ok(m, "folder_exposed", "hidden", NullUrl, m.folder, NoName, "Folder is now public")

ExposeOk(m) ==
  Ok(m, "folder_exposed", "exposed", buildPublicUrl(m.folder, NoName), m.folder,
     NoName, "Folder is now public")

ExposeStepPublicFirst(w, m) ==
  CASE m.pc = "probePrivate" ->
         IF pathExists(w, "public", m.folder, NoName) THEN R(w, ExposeOk(m))
         ELSE IF pathExists(w, "private", m.folder, NoName) THEN R(w, Goto(m, "ensureDir"))
         ELSE R(w, Err(m, 404, "Folder not found"))
    [] m.pc = "ensureDir" -> R(ensureRoot(w, "public"), Goto(m, "mvStat"))
    [] OTHER ->
         MoveStep(w, m, Loc("private", m.folder, NoName), Loc("public", m.folder, NoName),
                  ExposeOk(m))

\* expose probes private/ first and moves what it finds there over public/.
ExposeStep(w, m) ==
  CASE m.pc = "probePrivate" ->
         IF pathExists(w, "private", m.folder, NoName) THEN R(w, Goto(m, "ensureDir"))
         ELSE R(w, Goto(m, "probePublic"))
    [] m.pc = "probePublic" ->
         IF pathExists(w, "public", m.folder, NoName) THEN R(w, ExposeOk(m))
         ELSE R(w, Err(m, 404, "Folder not found"))
    [] m.pc = "ensureDir" -> R(ensureRoot(w, "public"), Goto(m, "mvStat"))
    [] OTHER ->
         MoveStep(w, m, Loc("private", m.folder, NoName), Loc("public", m.folder, NoName),
                  ExposeOk(m))

UnexposeOk(m) ==
  Ok(m, "folder_unexposed", "hidden", NullUrl, m.folder, NoName,
     "Folder is no longer public")

UnexposeStepPublicOnly(w, m) ==
  CASE m.pc = "probePublic" ->
         IF pathExists(w, "public", m.folder, NoName) THEN R(w, Goto(m, "ensureDir"))
         ELSE R(w, Err(m, 404, "Folder not found"))
    [] m.pc = "ensureDir" -> R(ensureRoot(w, "private"), Goto(m, "mvStat"))
    [] OTHER ->
         MoveStep(w, m, Loc("public", m.folder, NoName), Loc("private", m.folder, NoName),
                  UnexposeOk(m))

\* unexpose probes public/ first and moves what it finds there over private/.
UnexposeStep(w, m) ==
  CASE m.pc = "probePublic" ->
         IF pathExists(w, "public", m.folder, NoName) THEN R(w, Goto(m, "ensureDir"))
         ELSE R(w, Goto(m, "probePrivate"))
    [] m.pc = "probePrivate" ->
         IF pathExists(w, "private", m.folder, NoName) THEN R(w, UnexposeOk(m))
         ELSE R(w, Err(m, 404, "Folder not found"))
    [] m.pc = "ensureDir" -> R(ensureRoot(w, "private"), Goto(m, "mvStat"))
    [] OTHER ->
         MoveStep(w, m, Loc("public", m.folder, NoName), Loc("private", m.folder, NoName),
                  UnexposeOk(m))

\* ---------------------------------------------------------------- rename
RenameBegin(req) ==
  IF req.type = "" \/ req.folder = NoName \/ req.newName = NoName
    THEN Err(Machine(req, "done"), 400, "Missing required fields: type, folder, newName")
  ELSE IF req.type # "file" /\ req.type # "folder"
    THEN Err(Machine(req, "done"), 400, "Type must be file or folder")
  ELSE IF req.type = "file" /\ req.file = NoName
    THEN Err(Machine(req, "done"), 400, "Filename is required when type is file")
  ELSE IF req.type = "file"
    THEN IF ~validatePath(req.folder, req.file).ok
           THEN Caught(Machine(req, "done"), validatePath(req.folder, req.file).message)
         ELSE IF ~validatePath(req.folder, req.newName).ok
           THEN Caught(Machine(req, "done"), validatePath(req.folder, req.newName).message)
         ELSE Machine(req, "probePublic")
  ELSE IF ~validatePath(req.folder, NoName).ok
    THEN Caught(Machine(req, "done"), validatePath(req.folder, NoName).message)
  ELSE IF ~validatePath(req.newName, NoName).ok
    THEN Caught(Machine(req, "done"), validatePath(req.newName, NoName).message)
  ELSE Machine(req, "probePublic")

\* The item as the request names it (a folder rename names no file).
renameOld(m) == IF m.type = "file" THEN m.file ELSE NoName

RenameOkOldName(m) ==
  IF m.type = "file"
    THEN Ok(m, "renamed", visibilityOf(m.src = "public"),
            urlOf(m.src = "public", m.folder, m.file), m.folder, m.newName,
            "File renamed successfully")
  ELSE Ok(m, "renamed", visibilityOf(m.src = "public"),
          urlOf(m.src = "public", m.folder, NoName), m.newName, NoName,
          "Folder renamed successfully")

RenameOk(m) ==
  IF m.type = "file"
    THEN Ok(m, "renamed", visibilityOf(m.src = "public"),
            urlOf(m.src = "public", m.folder, m.newName), m.folder, m.newName,
            "File renamed successfully")
  ELSE Ok(m, "renamed", visibilityOf(m.src = "public"),
          urlOf(m.src = "public", m.newName, NoName), m.newName, NoName,
          "Folder renamed successfully")

\* rename resolves public/ first, then moves inside the root it resolved.
RenameStep(w, m) ==
  CASE m.pc = "probePublic" ->
         IF pathExists(w, "public", m.folder, renameOld(m))
           THEN R(w, [Goto(m, "mvStat") EXCEPT !.src = "public"])
         ELSE R(w, Goto(m, "probePrivate"))
    [] m.pc = "probePrivate" ->
         IF pathExists(w, "private", m.folder, renameOld(m))
           THEN R(w, [Goto(m, "mvStat") EXCEPT !.src = "private"])
         ELSE R(w, Err(m, 404, IF m.type = "file" THEN "File not found"
                                ELSE "Folder not found"))
    [] OTHER ->
         IF m.type = "file"
           THEN MoveStep(w, m, Loc(m.src, m.folder, m.file),
                         Loc(m.src, m.folder, m.newName), RenameOk(m))
         ELSE MoveStep(w, m, Loc(m.src, m.folder, NoName),
                       Loc(m.src, m.newName, NoName), RenameOk(m))

\* ------------------------------------------------------------ list/:folder
ListFolderBegin(req) ==
  IF ~validatePath(req.folder, NoName).ok
    THEN Caught(Machine(req, "done"), validatePath(req.folder, NoName).message)
  ELSE Machine(req, "probePublic")

\* listFolder resolves public/ first; readdir, then a stat of every entry.
ListFolderStep(w, m) ==
  CASE m.pc = "probePublic" ->
         IF pathExists(w, "public", m.folder, NoName)
           THEN R(w, [Goto(m, "readdir") EXCEPT !.src = "public"])
         ELSE R(w, Goto(m, "probePrivate"))
    [] m.pc = "probePrivate" ->
         IF pathExists(w, "private", m.folder, NoName)
           THEN R(w, [Goto(m, "readdir") EXCEPT !.src = "private"])
         ELSE R(w, Err(m, 404, "Folder not found"))
    [] m.pc = "readdir" ->
         IF ~pathExists(w, m.src, m.folder, NoName) THEN R(w, Caught(m, "ENOENT"))
         ELSE R(w, [Goto(m, "stat") EXCEPT !.names = fileNames(w, m.src, m.folder)])
    [] OTHER -> \* stat
         IF \E n \in m.names : ~pathExists(w, m.src, m.folder, n)
           THEN R(w, Caught(m, "ENOENT"))
         ELSE R(w, [Ok(m, "folder_listed", visibilityOf(m.src = "public"),
                       urlOf(m.src = "public", m.folder, NoName), m.folder, NoName,
                       "Folder listed")
                    EXCEPT !.files = {<<n, Size(w.fs[m.src][m.folder].files[n])>> :
                                        n \in m.names}])

\* ------------------------------------------------------------------ list
ListRootBegin(req) == Machine(req, "ensurePublic")

\* The folder map: public entries first, so a private entry of the same name
\* never replaces an exposed one.
dedupeKeepBoth(publicFolders, privateFolders) ==
  {<<f, "exposed", buildPublicUrl(f, NoName)>> : f \in publicFolders}
    \cup {<<f, "hidden", NullUrl>> : f \in privateFolders}

dedupe(publicFolders, privateFolders) ==
  {<<f, "exposed", buildPublicUrl(f, NoName)>> : f \in publicFolders}
    \cup {<<f, "hidden", NullUrl>> : f \in privateFolders \ publicFolders}

\* listRoot has no inner try: what a stat throws is answered 500.
ListRootStep(w, m) ==
  CASE m.pc = "ensurePublic" -> R(ensureRoot(w, "public"), Goto(m, "ensurePrivate"))
    [] m.pc = "ensurePrivate" -> R(ensureRoot(w, "private"), Goto(m, "readdirPublic"))
    [] m.pc = "readdirPublic" ->
         R(w, [Goto(m, "readdirPrivate") EXCEPT !.names = folderNames(w, "public")])
    [] m.pc = "readdirPrivate" ->
         R(w, [Goto(m, "statPublic") EXCEPT !.names2 = folderNames(w, "private")])
    [] m.pc = "statPublic" ->
         IF \E f \in m.names : ~pathExists(w, "public", f, NoName)
           THEN R(w, Err(m, 500, "Internal server error"))
         ELSE R(w, Goto(m, "statPrivate"))
    [] OTHER -> \* statPrivate
         IF \E f \in m.names2 : ~pathExists(w, "private", f, NoName)
           THEN R(w, Err(m, 500, "Internal server error"))
         ELSE R(w, [Ok(m, "root_listed", "null", NullUrl, NoName, NoName,
                       "Folders listed")
                    EXCEPT !.folders = dedupe(m.names, m.names2)])

\* -------------------------------------------------- GET /public/<f>/<n>
\* The root the public routes read from.
serveRootResolved == "private"
serveRoot == "public"

\* app.js answers a /public path of fewer than two segments itself.
ServeBegin(req) ==
  IF req.folder = NoName \/ req.file = NoName
    THEN Err(Machine(req, "done"), 404, "Not found")
  ELSE Machine(req, "static")

\* express.static answers when the file is there; otherwise the request falls
\* through to the router's handler: validatePath, pathExists, sendFile.
ServeStep(w, m) ==
  CASE m.pc = "static" ->
         IF m.folder \in Folders /\ m.file \in Files
              /\ pathExists(w, serveRoot, m.folder, m.file)
           THEN R(w, [m EXCEPT !.pc = "done", !.status = 200,
                               !.content = w.fs[serveRoot][m.folder].files[m.file]])
         ELSE IF ~validatePath(m.folder, m.file).ok
           THEN R(w, Caught(m, validatePath(m.folder, m.file).message))
         ELSE R(w, Goto(m, "probe"))
    [] m.pc = "probe" ->
         IF pathExists(w, serveRoot, m.folder, m.file) THEN R(w, Goto(m, "sendFile"))
         ELSE R(w, Err(m, 404, "File not found"))
    [] OTHER -> \* sendFile
         IF pathExists(w, serveRoot, m.folder, m.file)
           THEN R(w, [m EXCEPT !.pc = "done", !.status = 200,
                               !.content = w.fs[serveRoot][m.folder].files[m.file]])
         ELSE R(w, Err(m, 500, "Internal server error"))

\* ------------------------------------------------------- authMiddleware
\* An Authorization header as the words a single space separates (no words:
\* no header); ApiToken is process.env.API_TOKEN.
ApiToken == "tok"
NoHeader == << >>
GoodHeader == <<"Bearer", ApiToken>>
Headers ==
  {NoHeader, GoodHeader, <<"Bearer">>, <<"Bearer", "">>, <<"Bearer", "bad">>,
   <<"bearer", ApiToken>>, <<"Basic", ApiToken>>, <<ApiToken>>,
   <<"Bearer", ApiToken, "more">>}

\* authHeader.startsWith('Bearer ')
startsWithBearer(h) == Len(h) >= 2 /\ h[1] = "Bearer"

\* authMiddleware: "" when it calls next(), else the message of its 401.
\* The token is authHeader.split(' ')[1]: words after the second are ignored.
authMiddleware(h) ==
  IF h = NoHeader \/ ~startsWithBearer(h) THEN "Unauthorized"
  ELSE IF h[2] # ApiToken THEN "Invalid token"
  ELSE ""

\* The routes registered without authMiddleware.
OpenRoutesAndList == {"serve", "listRoot"}
OpenRoutes == {"serve"}

\* ------------------------------------------------------------ dispatching
\* The synchronous prefix of a handler, up to its first awaited call.
Begin(req) ==
  CASE req.op = "upload" -> UploadBegin(req)
    [] req.op = "mkdir" -> MkdirBegin(req)
    [] req.op = "delete" -> DeleteBegin(req)
    [] req.op \in {"expose", "unexpose"} -> ToggleBegin(req)
    [] req.op = "rename" -> RenameBegin(req)
    [] req.op = "listFolder" -> ListFolderBegin(req)
    [] req.op = "listRoot" -> ListRootBegin(req)
    [] OTHER -> ServeBegin(req)

\* One awaited filesystem call of a running handler, with the synchronous
\* code that follows it.
HandlerStep(w, m) ==
  CASE m.op = "upload" -> UploadStep(w, m)
    [] m.op = "mkdir" -> MkdirStep(w, m)
    [] m.op = "delete" -> DeleteStep(w, m)
    [] m.op = "expose" -> ExposeStep(w, m)
    [] m.op = "unexpose" -> UnexposeStep(w, m)
    [] m.op = "rename" -> RenameStep(w, m)
    [] m.op = "listFolder" -> ListFolderStep(w, m)
    [] m.op = "listRoot" -> ListRootStep(w, m)
    [] OTHER -> ServeStep(w, m)

Step(w, m) ==
  LET r == HandlerStep(w, m) IN R(r.w, [r.m EXCEPT !.nsteps = m.nsteps + 1])

\* A handler run from its first step to its response with nothing in between.
RECURSIVE Run(_)
Run(r) == IF r.m.pc = "done" THEN r ELSE Run(Step(r.w, r.m))

Handle(w, req) == Run(R(w, Begin(req)))

\* A request as the server receives it: authMiddleware first, on every route
\* that has it, then the handler.
Receive(h, req) ==
  IF req.op \notin OpenRoutes /\ authMiddleware(h) # ""
    THEN Err(Machine(req, "done"), 401, authMiddleware(h))
  ELSE Begin(req)

HandleAs(h, w, req) == Run(R(w, Receive(h, req)))

\* ------------------------------------------------------------ the inputs
\* The requests of Spec: every operation on every stored name (a second
\* content only for file a of folder x), and for every operation a request
\* with a name that validatePath rejects.
UploadReqs ==
  {Req("upload", "", f, n, NoName, exposeOf(flag), 1) :
     f \in Folders, n \in Files, flag \in ExposeFlags}
    \cup {Req("upload", "", X, FA, NoName, exposeOf(flag), 2) : flag \in ExposeFlags}
    \cup {Req("upload", "", DotDot, FA, NoName, FALSE, 1),
          Req("upload", "", X, DotDot, NoName, FALSE, 1),
          Req("upload", "", X, Nested, NoName, FALSE, 1)}

MkdirReqs ==
  {Req("mkdir", "", f, NoName, NoName, exposeOf(flag), 0) : f \in Folders, flag \in ExposeFlags}
    \cup {Req("mkdir", "", DotDot, NoName, NoName, FALSE, 0)}

DeleteReqs ==
  {Req("delete", "", f, n, NoName, FALSE, 0) : f \in Folders, n \in Files \cup {NoName}}
    \cup {Req("delete", "", DotDot, NoName, NoName, FALSE, 0),
          Req("delete", "", X, DotDot, NoName, FALSE, 0)}

ToggleReqs(op) == {Req(op, "", f, NoName, NoName, FALSE, 0) : f \in Folders \cup {DotDot}}

RenameFileReqs ==
  {Req("rename", "file", X, n, nn, FALSE, 0) : n \in Files, nn \in Files}
    \cup {Req("rename", "file", Y, FA, FB, FALSE, 0),
          Req("rename", "file", X, FA, DotDot, FALSE, 0),
          Req("rename", "file", X, FA, Nested, FALSE, 0)}

RenameFolderReqs ==
  {Req("rename", "folder", f, NoName, nn, FALSE, 0) : f \in Folders, nn \in Folders}
    \cup {Req("rename", "folder", X, NoName, DotDot, FALSE, 0)}

ListFolderReqs ==
  {Req("listFolder", "", f, NoName, NoName, FALSE, 0) : f \in Folders \cup {DotDot}}

ServeReqs ==
  {Req("serve", "", f, n, NoName, FALSE, 0) : f \in Folders, n \in Files}
    \cup {Req("serve", "", X, DotDot, NoName, FALSE, 0)}

NoPut == [root |-> "none", folder |-> NoName, file |-> NoName, data |-> 0]
\* No call of validatePath yet, and no result.
NoArg == [folder |-> NoName, filename |-> NoName]
NoRet == [ok |-> FALSE, message |-> "none"]

Init ==
  /\ arg = NoArg
  /\ ret = NoRet
  /\ fs = EmptyWorld.fs
  /\ roots = EmptyWorld.roots
  /\ pre = EmptyWorld
  /\ last = Idle
  /\ nops = 0
  /\ procs = [p \in Procs |-> Idle]
  /\ world0 = EmptyWorld
  /\ lastPut = NoPut
  /\ absent = [p \in Procs |-> FALSE]

\* ------------------------------------------ Spec: one request at a time
\* A whole handler, from the request to its response; pre keeps the disk the
\* request found and last the request with its response.
DoAs(h, req) ==
  /\ nops < MaxOps
  /\ \E r \in {HandleAs(h, World, req)} :
       /\ fs' = r.w.fs
       /\ roots' = r.w.roots
       /\ last' = r.m
  /\ pre' = World
  /\ nops' = nops + 1
  /\ UNCHANGED <<procs, world0, lastPut, absent, arg, ret>>

\* A request of a client that holds the token.
Do(req) == DoAs(GoodHeader, req)

Upload == \E req \in UploadReqs : Do(req)
Mkdir == \E req \in MkdirReqs : Do(req)
Delete == \E req \in DeleteReqs : Do(req)
Expose == \E req \in ToggleReqs("expose") : Do(req)
Unexpose == \E req \in ToggleReqs("unexpose") : Do(req)
RenameFileOp == \E req \in RenameFileReqs : Do(req)
RenameFolderOp == \E req \in RenameFolderReqs : Do(req)
ListFolder == \E req \in ListFolderReqs : Do(req)
ListRoot == Do(Req("listRoot", "", NoName, NoName, NoName, FALSE, 0))
Serve == \E req \in ServeReqs : Do(req)
\* A request without the token: no header, or a wrong token.
Unauthorized ==
  \/ DoAs(NoHeader, Req("upload", "", X, FA, NoName, TRUE, 1))
  \/ DoAs(<<"Bearer", "bad">>, Req("delete", "", X, NoName, NoName, FALSE, 0))

Next ==
  \/ Upload
  \/ Mkdir
  \/ Delete
  \/ Expose
  \/ Unexpose
  \/ RenameFileOp
  \/ RenameFolderOp
  \/ ListFolder
  \/ ListRoot
  \/ Serve
  \/ Unauthorized

Spec == Init /\ [][Next]_vars

\* ------------------------------- ConcSpec: two requests, step by step
\* The disk is first prepared by whole uploads and mkdirs on folder x; then
\* each of two clients sends one request, and the awaited steps of the two
\* handlers interleave freely.  world0 is the disk when the first of them is
\* received; lastPut is the last content a writeFile or a file rename has put
\* at a path.  absent[p] records, for an expose or unexpose of client p,
\* that at some instant between its receipt and its response the folder it
\* names was in neither root.
watched(req) == req.op \in {"expose", "unexpose"}
inNeither(w, f) == \A r \in Roots : ~w.fs[r][f].exists

Setup(req) ==
  /\ \A p \in Procs : procs[p].pc = "idle"
  /\ nops < MaxSetup
  /\ \E r \in {HandleAs(GoodHeader, World, req)} :
       /\ fs' = r.w.fs
       /\ roots' = r.w.roots
  /\ nops' = nops + 1
  /\ UNCHANGED <<pre, last, procs, world0, lastPut, absent, arg, ret>>

\* File a is prepared with either content, file b.t with the first.
SetupUpload ==
  \E n \in Files, d \in Data, e \in BOOLEAN :
    (d = 1 \/ n = FA) /\ Setup(Req("upload", "", X, n, NoName, e, d))

SetupMkdir == \E e \in BOOLEAN : Setup(Req("mkdir", "", X, NoName, NoName, e, 0))

\* The requests the two clients choose from, all on folder x.
ConcReqs ==
  {Req("upload", "", X, n, NoName, e, d) : n \in Files, e \in BOOLEAN, d \in Data}
    \cup {Req("mkdir", "", X, NoName, NoName, e, 0) : e \in BOOLEAN}
    \cup {Req("delete", "", X, n, NoName, FALSE, 0) : n \in Files \cup {NoName}}
    \cup {Req(op, "", X, NoName, NoName, FALSE, 0) :
            op \in {"expose", "unexpose", "listFolder", "listRoot"}}
    \cup {Req("rename", "file", X, n, nn, FALSE, 0) : n \in Files, nn \in Files}
    \cup {Req("rename", "folder", X, NoName, Y, FALSE, 0)}
    \cup {Req("serve", "", X, n, NoName, FALSE, 0) : n \in Files}

\* The two clients are interchangeable, so of two requests client p1 sends the
\* one whose operation comes first in this order.
OpRank(op) ==
  CASE op = "upload" -> 1 [] op = "mkdir" -> 2 [] op = "delete" -> 3
    [] op = "expose" -> 4 [] op = "unexpose" -> 5 [] op = "rename" -> 6
    [] op = "listFolder" -> 7 [] op = "listRoot" -> 8 [] OTHER -> 9

InOrder(p, req) ==
  /\ p = "p1" /\ procs["p2"].pc # "idle" => OpRank(req.op) <= OpRank(procs["p2"].op)
  /\ p = "p2" /\ procs["p1"].pc # "idle" => OpRank(procs["p1"].op) <= OpRank(req.op)

Start(p) ==
  /\ procs[p].pc = "idle"
  /\ \E req \in ConcReqs :
       /\ InOrder(p, req)
       /\ procs' = [procs EXCEPT ![p] = Receive(GoodHeader, req)]
       /\ absent' = [absent EXCEPT ![p] = watched(req) /\ inNeither(World, req.folder)]
  /\ world0' = IF \A q \in Procs : procs[q].pc = "idle" THEN World ELSE world0
  /\ UNCHANGED <<fs, roots, pre, last, nops, lastPut, arg, ret>>

\* What the step of machine m that led to machine m2 on disk w2 has put.
putOf(m, m2, w2) ==
  IF m.op = "upload" /\ m.pc = "writeFile" /\ m2.status = 200
    THEN [root |-> baseDir(m.expose), folder |-> m.folder, file |-> m.file,
          data |-> m.data]
  ELSE IF m.op = "rename" /\ m.type = "file" /\ m.pc = "mvRename" /\ m2.status = 200
    THEN [root |-> m.src, folder |-> m.folder, file |-> m.newName,
          data |-> w2.fs[m.src][m.folder].files[m.newName]]
  ELSE lastPut

\* One awaited call of the request client p has in flight.
ProcStep(p, op) ==
  /\ procs[p].op = op
  /\ procs[p].pc \notin {"idle", "done"}
  /\ \E r \in {Step(World, procs[p])} :
       /\ fs' = r.w.fs
       /\ roots' = r.w.roots
       /\ procs' = [procs EXCEPT ![p] = r.m]
       /\ lastPut' = putOf(procs[p], r.m, r.w)
       /\ absent' = [q \in Procs |->
                       absent[q] \/ (/\ watched(procs[q])
                                     /\ procs[q].pc \notin {"idle", "done"}
                                     /\ inNeither(r.w, procs[q].folder))]
  /\ UNCHANGED <<pre, last, nops, world0, arg, ret>>

UploadProc == \E p \in Procs : ProcStep(p, "upload")
MkdirProc == \E p \in Procs : ProcStep(p, "mkdir")
DeleteProc == \E p \in Procs : ProcStep(p, "delete")
ExposeProc == \E p \in Procs : ProcStep(p, "expose")
UnexposeProc == \E p \in Procs : ProcStep(p, "unexpose")
RenameProc == \E p \in Procs : ProcStep(p, "rename")
ListFolderProc == \E p \in Procs : ProcStep(p, "listFolder")
ListRootProc == \E p \in Procs : ProcStep(p, "listRoot")
ServeProc == \E p \in Procs : ProcStep(p, "serve")

ConcNext ==
  \/ SetupUpload
  \/ SetupMkdir
  \/ \E p \in Procs : Start(p)
  \/ UploadProc
  \/ MkdirProc
  \/ DeleteProc
  \/ ExposeProc
  \/ UnexposeProc
  \/ RenameProc
  \/ ListFolderProc
  \/ ListRootProc
  \/ ServeProc

ConcSpec == Init /\ [][ConcNext]_vars

\* --------------------------- ValidateSpec: validatePath on short strings
\* The characters the strings are made of: letters, a digit, underscore and
\* dash, and the dot, the two separators and the space.
Chars == {"a", "A", "7", "_", "-", ".", "/", "\\", " "}

RECURSIVE StringsOfLen(_)
StringsOfLen(k) ==
  IF k = 0 THEN {<< >>} ELSE {<<c>> \o s : c \in Chars, s \in StringsOfLen(k - 1)}

\* The strings of at most len characters.
Strings(len) == UNION {StringsOfLen(k) : k \in 0..len}

\* Every string as the folder beside a missing, a good and a bad filename, and
\* every string as the filename beside a missing, a good and a bad folder.
Args(len) ==
  {[folder |-> s, filename |-> n] : s \in Strings(len), n \in {NoName, FA, DotDot}}
    \cup {[folder |-> f, filename |-> s] : s \in Strings(len), f \in {NoName, FA, DotDot}}

\* Longer names that climb with '..' segments: a filename and a folder that
\* would leave the two roots, and a filename that stays at its folder.
ClimbOut == <<"a", ".", "/", ".", ".", "/", ".", ".", "/", ".", ".">>
ClimbFolder == <<"a", "/", ".", ".", "/", ".", ".">>
ClimbBack == <<"a", ".", "/", ".", ".">>
ClimbArgs ==
  {[folder |-> FA, filename |-> n] : n \in {ClimbOut, ClimbBack}}
    \cup {[folder |-> ClimbFolder, filename |-> n] : n \in {NoName, FA}}

ValidateInit ==
  /\ arg \in Args(MaxLen) \cup ClimbArgs
  /\ ret = NoRet
  /\ fs = EmptyWorld.fs
  /\ roots = EmptyWorld.roots
  /\ pre = EmptyWorld
  /\ last = Idle
  /\ nops = 0
  /\ procs = [p \in Procs |-> Idle]
  /\ world0 = EmptyWorld
  /\ lastPut = NoPut
  /\ absent = [p \in Procs |-> FALSE]

\* The call validatePath(arg.folder, arg.filename) and what it returns or throws.
Validate ==
  /\ ret = NoRet
  /\ ret' = validatePath(arg.folder, arg.filename)
  /\ UNCHANGED <<fs, roots, pre, last, nops, procs, world0, lastPut, absent, arg>>

\* A mkdir or upload request naming arg, when the handler answers it before
\* any filesystem call.
CreateRejected ==
  /\ last = Idle
  /\ \E op \in {"mkdir", "upload"} :
       LET m == Receive(GoodHeader, Req(op, "", arg.folder, IF op = "upload" THEN arg.filename ELSE NoName,
                          NoName, FALSE, IF op = "upload" THEN 1 ELSE 0)) IN
         /\ m.pc = "done"
         /\ last' = m
  /\ UNCHANGED <<fs, roots, pre, nops, procs, world0, lastPut, absent, arg, ret>>

ValidateNext == Validate \/ CreateRejected

ValidateSpec == ValidateInit /\ [][ValidateNext]_vars

\* ================================================================ claims
DeleteReq(f, n) == Req("delete", "", f, n, NoName, FALSE, 0)
ListFolderReq(f) == Req("listFolder", "", f, NoName, NoName, FALSE, 0)
ListRootReq == Req("listRoot", "", NoName, NoName, NoName, FALSE, 0)
ServeReq(f, n) == Req("serve", "", f, n, NoName, FALSE, 0)

hasFolder(w, f) == \E r \in Roots : pathExists(w, r, f, NoName)
inBoth(w, f) == \A r \in Roots : pathExists(w, r, f, NoName)
\* The visibility GET /list/<f> reports on disk w.
listedVisibility(w, f) == Handle(w, ListFolderReq(f)).m.visibility
\* The folder names GET /list reports on disk w.
listedFolders(w) == {e[1] : e \in Handle(w, ListRootReq).m.folders}

\* C1: in every reachable state GET /public/<f>/<n> answers 200 with the
\* file's bytes exactly when public/<f>/<n> exists, and 404 otherwise; so a
\* file that is only under private/ is never served, also right after a
\* successful unexpose of its folder.
C1_ServedIffInPublic ==
  \A f \in Folders, n \in Files :
    LET m == Handle(World, ServeReq(f, n)).m IN
      IF pathExists(World, "public", f, n)
        THEN m.status = 200 /\ m.content = fs["public"][f].files[n]
      ELSE m.status = 404 /\ m.content = 0

C1_Witness ==
  /\ last.op = "unexpose" /\ last.status = 200
  /\ \E n \in Files :
       /\ pathExists(pre, "public", last.folder, n)
       /\ pathExists(World, "private", last.folder, n)
       /\ Handle(World, ServeReq(last.folder, n)).m.status = 404

\* C2 (as claimed): after any sequence of completed operations from empty
\* roots, no folder exists in the exposed and in the hidden root at once.
C2_NoFolderInBothRoots == \A f \in Folders : ~inBoth(World, f)

\* C3 (as claimed): for a folder that exists before and after an operation,
\* the visibility listFolder reports changes only if the operation is an
\* expose or unexpose of that folder.
C3_VisibilityChangesOnlyByToggle ==
  \A f \in Folders :
    (/\ hasFolder(pre, f) /\ hasFolder(World, f)
     /\ ~(last.op \in {"expose", "unexpose"} /\ last.folder = f))
      => listedVisibility(World, f) = listedVisibility(pre, f)

\* C4 (as claimed): when a folder is in both roots, rename, listFolder, expose
\* and unexpose take the exposed-root copy as the item: listFolder lists it, a
\* folder rename moves it, unexpose moves it to private/, and expose keeps it.
C4_ExposedCopyWins ==
  LET f == last.folder IN
    (last.status = 200 /\ f \in Folders /\ inBoth(pre, f)) =>
      /\ last.op = "listFolder" =>
           /\ last.visibility = "exposed"
           /\ {e[1] : e \in last.files} = fileNames(pre, "public", f)
      /\ last.op = "rename" /\ last.type = "folder" =>
           fs["public"][last.newName] = pre.fs["public"][f]
      /\ last.op = "unexpose" => fs["private"][f] = pre.fs["public"][f]
      /\ last.op = "expose" => fs["public"][f] = pre.fs["public"][f]

\* C5: a successful deleteItem(x) of a folder that is in both roots removes it
\* from both, with its files, and listRoot no longer lists it.
C5_DeleteFolderCoversBothRoots ==
  (/\ last.op = "delete" /\ last.file = NoName /\ last.status = 200
   /\ inBoth(pre, last.folder))
    => /\ ~hasFolder(World, last.folder)
       /\ \A r \in Roots : fileNames(World, r, last.folder) = {}
       /\ last.folder \notin listedFolders(World)

C5_Witness ==
  /\ last.op = "delete" /\ last.file = NoName /\ last.status = 200
  /\ inBoth(pre, last.folder)
  /\ \E r \in Roots : fileNames(pre, r, last.folder) # {}
  /\ ~hasFolder(World, last.folder)

\* C6 (as claimed): after a successful deleteItem(folder, filename) the file
\* exists in neither root, also when both roots held a copy.
C6_DeleteFileCoversBothRoots ==
  (last.op = "delete" /\ last.file # NoName /\ last.status = 200)
    => \A r \in Roots : ~pathExists(World, r, last.folder, last.file)

\* C7 (as claimed): a deleteItem that immediately follows a successful
\* deleteItem of the same target answers 404 and changes nothing.
C7_SecondDeleteNotFound ==
  (last.op = "delete" /\ last.status = 200) =>
    LET again == Handle(World, DeleteReq(last.folder, last.file)) IN
      again.m.status = 404 /\ again.w = World

\* ---------------------------------------------- claims about interleavings
isToggle(m) == m.op \in {"expose", "unexpose"}
isFolderDelete(m) == m.op = "delete" /\ m.file = NoName
\* The root an item resolves to on disk w: public/ is probed first.
resolvedRoot(w, f, n) ==
  IF pathExists(w, "public", f, n) THEN "public"
  ELSE IF pathExists(w, "private", f, n) THEN "private"
  ELSE "none"

\* C8 (as claimed): two concurrent calls, each an expose or unexpose of a
\* folder that was in exactly one root, leave the folder in some root with
\* every file it held, whatever the interleaving.
C8_ConcurrentTogglesKeepData ==
  (/\ \A p \in Procs : procs[p].pc = "done" /\ isToggle(procs[p])
   /\ hasFolder(world0, X) /\ ~inBoth(world0, X))
    => /\ hasFolder(World, X)
       /\ \A r0 \in Roots, n \in Files :
            world0.fs[r0][X].files[n] # 0 =>
              \E r \in Roots : fs[r][X].files[n] = world0.fs[r0][X].files[n]

\* C9: a deleteItem(f) that runs beside an expose or unexpose of f can find f
\* in neither root although f is on disk throughout; it then answers 404
\* after exactly its two probes, having removed nothing and without probing
\* again.
C9_DeleteNotFoundIsFinal ==
  \A p \in Procs :
    (isFolderDelete(procs[p]) /\ procs[p].status = 404)
      => procs[p].pc = "done" /\ procs[p].nsteps = 2 /\ ~procs[p].found

C9_Witness ==
  \E p \in Procs, q \in Procs :
    /\ isFolderDelete(procs[p]) /\ procs[p].pc = "done" /\ procs[p].status = 404
    /\ isToggle(procs[q]) /\ procs[q].pc = "done" /\ procs[q].status = 200
    /\ procs[q].nsteps > 2
    /\ hasFolder(world0, X) /\ hasFolder(World, X)

\* C10: a storeFile and a file rename aimed at the same (root, folder,
\* filename) both succeed whether or not the target exists, and once both are
\* done the target holds what the later of the write and the move put there.
C10_LastWriteWins ==
  \A p \in Procs, q \in Procs :
    LET u == procs[p]
        m == procs[q]
        r0 == resolvedRoot(world0, m.folder, m.file) IN
      (/\ u.op = "upload" /\ u.pc = "done"
       /\ m.op = "rename" /\ m.type = "file" /\ m.pc = "done"
       /\ m.file # m.newName /\ u.file = m.newName /\ u.folder = m.folder
       /\ r0 # "none" /\ baseDir(u.expose) = r0)
        => /\ u.status = 200 /\ m.status = 200
           /\ lastPut.root = r0 /\ lastPut.folder = m.folder
           /\ lastPut.file = m.newName
           /\ fs[r0][m.folder].files[m.newName] = lastPut.data
           /\ lastPut.data \in {u.data, world0.fs[r0][m.folder].files[m.file]}

C10_Witness ==
  \E p \in Procs, q \in Procs :
    LET u == procs[p]
        m == procs[q]
        r0 == resolvedRoot(world0, m.folder, m.file) IN
      /\ u.op = "upload" /\ u.pc = "done" /\ u.status = 200
      /\ m.op = "rename" /\ m.type = "file" /\ m.pc = "done" /\ m.status = 200
      /\ m.file # m.newName /\ u.file = m.newName
      /\ r0 # "none" /\ baseDir(u.expose) = r0
      /\ pathExists(world0, r0, m.folder, m.newName)
      /\ world0.fs[r0][m.folder].files[m.file] # u.data
      /\ fs[r0][m.folder].files[m.newName] = world0.fs[r0][m.folder].files[m.file]

\* ------------------------------------------------ claims about sequences
ToggleReq(op, f) == Req(op, "", f, NoName, NoName, FALSE, 0)
\* The visibility an expose / unexpose answers with.
toggleVisibility(op) == IF op = "expose" THEN "exposed" ELSE "hidden"

\* C11: an expose (unexpose) of a folder that exists in some root succeeds
\* with visibility exposed (hidden), and the same call made again right after
\* it succeeds with the same visibility and leaves both roots as they are.
C11_ToggleIdempotent ==
  (isToggle(last) /\ last.folder \in Folders /\ hasFolder(pre, last.folder)) =>
    LET again == Handle(World, ToggleReq(last.op, last.folder)) IN
      /\ last.status = 200 /\ last.visibility = toggleVisibility(last.op)
      /\ again.m.status = 200 /\ again.m.visibility = toggleVisibility(last.op)
      /\ again.w = World

C11_Witness ==
  /\ isToggle(last) /\ last.status = 200 /\ World # pre
  /\ pre.fs[otherRoot(baseDir(last.op = "expose"))][last.folder].files[FA] # 0
  /\ Handle(World, ToggleReq(last.op, last.folder)).m.status = 200

\* C12: right after a successful expose(f), GET /list/<f> reports visibility
\* exposed and the URL <base>/public/<f>/; right after a successful
\* unexpose(f) it reports visibility hidden and no URL.
C12_ListFolderFollowsToggle ==
  (isToggle(last) /\ last.status = 200) =>
    LET l == Handle(World, ListFolderReq(last.folder)).m IN
      /\ l.status = 200
      /\ last.op = "expose" =>
           l.visibility = "exposed" /\ l.url = <<"PUBLIC_URL", "public", last.folder, NoName>>
      /\ last.op = "unexpose" => l.visibility = "hidden" /\ l.url = NullUrl

C12_Witness ==
  /\ last.op = "unexpose" /\ last.status = 200
  /\ listedVisibility(pre, last.folder) = "exposed"
  /\ Handle(pre, ListFolderReq(last.folder)).m.url # NullUrl
  /\ listedVisibility(World, last.folder) = "hidden"

RenameReq(type, f, n, nn) == Req("rename", type, f, n, nn, FALSE, 0)

\* C13: a successful rename moves the item inside the root it was resolved in
\* (public/ first): there the new name holds what the old name held, the old
\* name is gone, the visibility answered is the one of that root, and the
\* other root is as it was.
C13_RenameStaysInRoot ==
  (last.op = "rename" /\ last.status = 200) =>
    LET r == resolvedRoot(pre, last.folder, renameOld(last)) IN
      /\ r \in Roots
      /\ last.visibility = visibilityOf(r = "public")
      /\ fs[otherRoot(r)] = pre.fs[otherRoot(r)]
      /\ roots = pre.roots
      /\ last.type = "file" =>
           /\ fs[r][last.folder].files[last.newName] = pre.fs[r][last.folder].files[last.file]
           /\ ~pathExists(World, r, last.folder, last.file)
      /\ last.type = "folder" =>
           /\ fs[r][last.newName] = pre.fs[r][last.folder]
           /\ ~pathExists(World, r, last.folder, NoName)

C13_Witness ==
  /\ last.op = "rename" /\ last.status = 200 /\ last.type = "folder"
  /\ resolvedRoot(pre, last.folder, NoName) = "private"
  /\ fileNames(World, "private", last.newName) # {}
  /\ folderNames(pre, "public") # {}

\* C14 (as claimed): after a successful rename of a to a different name b, a
\* request that still names a (a rename, a delete, or for a folder a
\* listFolder) answers 404.
C14_OldNameNotFound ==
  (last.op = "rename" /\ last.status = 200) =>
    /\ (last.type = "file" /\ last.file # last.newName) =>
         /\ Handle(World, RenameReq("file", last.folder, last.file, last.newName)).m.status = 404
         /\ Handle(World, DeleteReq(last.folder, last.file)).m.status = 404
    /\ (last.type = "folder" /\ last.folder # last.newName) =>
         /\ Handle(World, RenameReq("folder", last.folder, NoName, last.newName)).m.status = 404
         /\ Handle(World, DeleteReq(last.folder, NoName)).m.status = 404
         /\ Handle(World, ListFolderReq(last.folder)).m.status = 404

\* C15: GET /list names every folder that is a directory in either root
\* exactly once; the entry is exposed with the folder's URL when the name is
\* under public/ (also when it is under private/ too), hidden with no URL
\* otherwise.
C15_ListRootOncePerName ==
  LET m == Handle(World, ListRootReq).m IN
    /\ m.status = 200
    /\ {e[1] : e \in m.folders} = folderNames(World, "public") \cup folderNames(World, "private")
    /\ \A e1 \in m.folders, e2 \in m.folders : e1[1] = e2[1] => e1 = e2
    /\ \A e \in m.folders :
         IF pathExists(World, "public", e[1], NoName)
           THEN e[2] = "exposed" /\ e[3] = <<"PUBLIC_URL", "public", e[1], NoName>>
         ELSE e[2] = "hidden" /\ e[3] = NullUrl

C15_Witness ==
  \E f \in Folders, g \in Folders :
    /\ inBoth(World, f)
    /\ pathExists(World, "private", g, NoName) /\ ~pathExists(World, "public", g, NoName)
    /\ Handle(World, ListRootReq).m.folders =
         {<<f, "exposed", <<"PUBLIC_URL", "public", f, NoName>>>>, <<g, "hidden", NullUrl>>}

\* C16 (as claimed): right after a successful upload of <f>/<n>, GET /list/<f>
\* reports the visibility the upload answered (exposed iff the expose flag)
\* and lists n with the size of the uploaded bytes.
C16_ListFolderFollowsUpload ==
  (last.op = "upload" /\ last.status = 200) =>
    LET l == Handle(World, ListFolderReq(last.folder)).m IN
      /\ last.visibility = visibilityOf(last.expose)
      /\ l.status = 200
      /\ l.visibility = last.visibility
      /\ <<last.file, Size(last.data)>> \in l.files

\* C17: after a successful upload of <f>/<n> with expose = true, public/<f>/<n>
\* holds exactly the uploaded bytes and GET /public/<f>/<n> answers them,
\* whether or not the folder or the file was there before; a second upload to
\* the same name leaves the later bytes.
C17_ExposedUploadRoundTrip ==
  (last.op = "upload" /\ last.status = 200 /\ last.expose) =>
    LET s == Handle(World, ServeReq(last.folder, last.file)).m IN
      /\ fs["public"][last.folder].files[last.file] = last.data
      /\ s.status = 200 /\ s.content = last.data

C17_Witness ==
  /\ last.op = "upload" /\ last.status = 200 /\ last.expose
  /\ pathExists(pre, "public", last.folder, last.file)
  /\ pre.fs["public"][last.folder].files[last.file] # last.data
  /\ Handle(World, ServeReq(last.folder, last.file)).m.content = last.data

\* C18: mkdir and upload write under public/ exactly when the request's
\* expose flag is true, and under private/ when it is false or omitted; they
\* answer exposed iff they wrote under public/, and the other root is left as
\* it was.
C18_CreateIntoRequestedRoot ==
  /\ (last.op \in {"mkdir", "upload"} /\ last.status = 200) =>
       LET r == IF last.expose THEN "public" ELSE "private" IN
         /\ pathExists(World, r, last.folder, last.file)
         /\ last.op = "upload" => fs[r][last.folder].files[last.file] = last.data
         /\ last.visibility = (IF r = "public" THEN "exposed" ELSE "hidden")
         /\ fs[otherRoot(r)] = pre.fs[otherRoot(r)]
         /\ roots[otherRoot(r)] = pre.roots[otherRoot(r)]
  /\ \A flag \in ExposeFlags, f \in Folders :
       LET mk == Handle(World, Req("mkdir", "", f, NoName, NoName, exposeOf(flag), 0))
           up == Handle(World, Req("upload", "", f, FA, NoName, exposeOf(flag), 1))
           r == IF flag = "true" THEN "public" ELSE "private" IN
         /\ mk.m.status = 200 /\ up.m.status = 200
         /\ mk.m.visibility = (IF flag = "true" THEN "exposed" ELSE "hidden")
         /\ up.m.visibility = mk.m.visibility
         /\ mk.w.fs[r][f].exists /\ up.w.fs[r][f].files[FA] = 1
         /\ mk.w.fs[otherRoot(r)] = fs[otherRoot(r)]
         /\ up.w.fs[otherRoot(r)] = fs[otherRoot(r)]

C18_Witness ==
  /\ last.op = "upload" /\ last.status = 200 /\ ~last.expose
  /\ pathExists(pre, "public", last.folder, NoName)
  /\ ~pathExists(pre, "private", last.folder, NoName)
  /\ pathExists(World, "private", last.folder, last.file)
  /\ fs["public"] = pre.fs["public"]
  /\ Handle(pre, Req("upload", "", last.folder, last.file, NoName, exposeOf("omitted"),
                     last.data)).w = World

\* The operations that resolve an item, and the item a request addresses.
Resolving == {"expose", "unexpose", "listFolder", "rename", "delete"}
addressedFile(m) == IF m.op = "rename" THEN renameOld(m) ELSE m.file
\* Every name of the request passes validatePath.
namesValid(m) ==
  /\ validatePath(m.folder, addressedFile(m)).ok
  /\ m.op = "rename" =>
       IF m.type = "file" THEN validatePath(m.folder, m.newName).ok
       ELSE validatePath(m.newName, NoName).ok
present(w, m) == \E r \in Roots : pathExists(w, r, m.folder, addressedFile(m))

\* C19: run on its own, an admitted expose, unexpose, listFolder, rename or
\* delete whose names are valid answers 404 exactly when the item it addresses is in
\* neither root when the call is made, and a call that answers 404 has left
\* both roots as they were.
C19_NotFoundIffAbsent ==
  (last.op \in Resolving /\ last.status # 401 /\ namesValid(last)) =>
    /\ last.status = 404 <=> ~present(pre, last)
    /\ last.status = 404 => World = pre

C19_Witness ==
  /\ last.op \in {"unexpose", "rename"} /\ last.status = 404
  /\ namesValid(last) /\ ~present(pre, last)
  /\ hasFolder(pre, last.folder) \/ folderNames(pre, "private") # {}
  /\ World = pre

\* The messages of the errors the filesystem calls throw.
FsErrorTexts ==
  {"ENOENT", "ENOTEMPTY", "dest already exists.",
   "Source and destination must not be the same."}

\* C20 (as claimed): a request whose names passed validation never answers a
\* 400, and never answers with the text of a filesystem error: a filesystem
\* call that fails in it is answered 500 'Internal server error'.
C20_FsFailureIsInternalError ==
  \A p \in Procs :
    LET m == procs[p] IN
      (/\ m.pc = "done" /\ namesValid(m)
       /\ ~(m.op = "rename" /\ m.file = m.newName))
        => /\ m.status # 400
           /\ m.message \notin FsErrorTexts

\* ------------------------------------------------ claims about validatePath
\* The characters of Chars that the grammar [A-Za-z0-9_-] admits.
GrammarChars == {"a", "A", "7", "_", "-"}
inGrammar(s) == Len(s) > 0 /\ \A i \in 1..Len(s) : s[i] \in GrammarChars
called == ret # NoRet

\* C21: validatePath(folder), without a filename, accepts the folder exactly
\* when it is non-empty and made of characters of [A-Za-z0-9_-] only; it then
\* returns the folder unchanged, and every other string is rejected with an
\* error message.
C21_FolderGrammar ==
  (called /\ arg.filename = NoName) =>
    /\ ret.ok <=> inGrammar(arg.folder)
    /\ ret.ok => ret.folder = arg.folder /\ ret.filename = NoName
    /\ ~ret.ok => ret.message # ""

C21_Witness ==
  /\ called /\ arg.filename = NoName /\ ret.ok
  /\ arg.folder = <<"A", "-", "7">> /\ ret.folder = arg.folder

\* The part of a filename before its first dot.
baseOf(n) ==
  IF \E i \in 1..Len(n) : n[i] = "."
    THEN SubSeq(n, 1, (CHOOSE i \in 1..Len(n) : n[i] = "." /\ \A j \in 1..(i - 1) : n[j] # ".") - 1)
  ELSE n
hasDefect(n) ==
  \/ \E i \in 1..(Len(n) - 1) : n[i] = "." /\ n[i + 1] = "."
  \/ n[1] = "."
  \/ \E i \in 1..Len(n) : n[i] \in {"/", "\\"}
  \/ ~inGrammar(baseOf(n))

\* C22 (as claimed): with a valid folder, validatePath rejects every filename
\* that contains '..', begins with '.', contains '/' or '\' anywhere, or has a
\* character outside [A-Za-z0-9_-] before its first '.', and accepts every
\* other filename.
C22_FilenameGrammar ==
  (called /\ arg.folder = FA /\ arg.filename # NoName) =>
    (ret.ok <=> ~hasDefect(arg.filename))

\* The messages validatePath produces over all the arguments.
Messages(len) == {validatePath(a.folder, a.filename).message : a \in Args(len)}
\* The message the claim fixes for the cause of a rejection.
messageOfCause(folder, filename) ==
  IF folder = NoName THEN "Folder name is required"
  ELSE IF folder[1] \in {"/", "."} \/ \E i \in 1..(Len(folder) - 1) : folder[i] = "." /\ folder[i + 1] = "."
    THEN "Invalid folder path"
  ELSE IF ~inGrammar(folder) THEN "Invalid folder name"
  ELSE IF filename = NoName THEN ""
  ELSE IF filename[1] \in {"/", "."}
            \/ \E i \in 1..(Len(filename) - 1) : filename[i] = "." /\ filename[i + 1] = "."
    THEN "Invalid file path"
  ELSE IF ~inGrammar(baseOf(filename)) THEN "Invalid filename"
  ELSE ""

\* C23 (as claimed): every rejection carries the one message fixed by its
\* cause, and each of the six messages (folder required, invalid folder path,
\* invalid folder name, filename required, invalid file path, invalid
\* filename) is produced for some argument.
C23_OneMessagePerCause ==
  /\ called => ret.message = messageOfCause(arg.folder, arg.filename)
  /\ {"Folder name is required", "Invalid folder path", "Invalid folder name",
      "Filename is required", "Invalid file path", "Invalid filename"} \subseteq Messages(MaxLen)

hasBadChar(s) == \E i \in 1..Len(s) : s[i] \notin GrammarChars
\* A mkdir, or an upload that carries a valid filename and data.
createsFolder(m) == m.op = "mkdir" \/ (m.op = "upload" /\ m.file = FA)

GuardedReqs ==
  {Req("upload", "", f, FA, NoName, TRUE, 1) : f \in {X, DotDot}}
    \cup {Req("mkdir", "", f, NoName, NoName, TRUE, 0) : f \in {X, DotDot}}
    \cup {Req("delete", "", X, n, NoName, FALSE, 0) : n \in {NoName, FA}}
    \cup {Req(op, "", f, NoName, NoName, FALSE, 0) :
            op \in {"expose", "unexpose", "listFolder"}, f \in {X, DotDot}}
    \cup {Req("rename", "file", X, FA, FB, FALSE, 0),
          Req("rename", "folder", X, NoName, Y, FALSE, 0),
          Req("listRoot", "", NoName, NoName, NoName, FALSE, 0)}

\* The header presents the configured token after the word Bearer.
presentsToken(h) == Len(h) >= 2 /\ h[1] = "Bearer" /\ h[2] = ApiToken

\* The request is answered 401 by authMiddleware, with no filesystem step
\* taken and the disk as it was.
refused(h, req) ==
  LET r == HandleAs(h, World, req) IN
    /\ r.m.status = 401
    /\ r.m.message \in {"Unauthorized", "Invalid token"}
    /\ r.m.nsteps = 0
    /\ r.w = World

C26_FoldersStayFlat ==
  \A r \in Roots, f \in Folders :
    ~fs[r][f].subdir /\ fs[r][f].files[Nested] = 0

\* ---------------------------------------------------------------- C27
\* The item a successful operation leaves behind, by its name afterwards.
itemAfter(m) ==
  IF m.op = "rename"
    THEN IF m.type = "file" THEN <<m.folder, m.newName>> ELSE <<m.newName, NoName>>
  ELSE IF m.op = "upload" THEN <<m.folder, m.file>>
  ELSE <<m.folder, NoName>>

\* The operations that answer with the JSON envelope.
Enveloped ==
  {"upload", "mkdir", "delete", "expose", "unexpose", "rename", "listFolder", "listRoot"}

\* C27: in a success response url is non-null exactly when visibility is
\* exposed, and then it is <PUBLIC_URL>/public/<folder>/<filename> (file) or
\* <PUBLIC_URL>/public/<folder>/ (folder) of the item under the name it has
\* after the operation; a delete answers hidden with url null.  The entries
\* of the root listing follow the same rule.
C27_UrlIffExposed ==
  (last.status = 200 /\ last.op \in Enveloped) =>
    /\ last.url # NullUrl <=> last.visibility = "exposed"
    /\ last.visibility = "exposed" =>
         last.url = <<"PUBLIC_URL", "public", itemAfter(last)[1], itemAfter(last)[2]>>
    /\ last.op = "delete" => (last.visibility = "hidden" /\ last.url = NullUrl)
    /\ \A e \in last.folders :
         /\ e[3] # NullUrl <=> e[2] = "exposed"
         /\ e[2] = "exposed" => e[3] = <<"PUBLIC_URL", "public", e[1], NoName>>

\* An exposed file has just been renamed and the answer carries the URL of
\* the new name.
C27_Witness ==
  /\ last.op = "rename" /\ last.type = "file" /\ last.status = 200
  /\ last.visibility = "exposed" /\ last.newName # last.file
  /\ last.url = <<"PUBLIC_URL", "public", last.folder, last.newName>>
  /\ pathExists(World, "public", last.folder, last.newName)

\* ---------------------------------------------------------------- C28
EnvelopeKeys == {"status", "action", "visibility", "url", "folder", "file"}
ErrorCodes == {400, 401, 404, 500}

\* An error response carries status 'error' and a message.
errorEnvelope(m) ==
  m.status \in ErrorCodes =>
    ({"status", "message"} \subseteq m.keys /\ m.result = "error" /\ m.message # "")

\* C28 as stated: every success response of every endpoint carries status,
\* action, visibility, url, folder and file, and every error response
\* carries status 'error' and a message.
C28_EveryResponseEnveloped ==
  /\ last.status = 200 => (EnvelopeKeys \subseteq last.keys /\ last.result = "ok")
  /\ errorEnvelope(last)

\* C28: every success response of the endpoints other than GET /public
\* carries status, action, visibility, url, folder and file, and every error
\* response of every endpoint carries status 'error' and a message; a
\* successful GET /public sends the file's bytes and no such fields.
C28_JsonResponsesEnveloped ==
  /\ (last.status = 200 /\ last.op \in Enveloped) =>
       (EnvelopeKeys \subseteq last.keys /\ last.result = "ok" /\ last.action # "")
  /\ (last.status = 200 /\ last.op = "serve") => last.keys = {}
  /\ errorEnvelope(last)
  /\ last.status \in {0, 200} \cup ErrorCodes

\* GET /list has just answered with a non-empty listing and the envelope.
C28_Witness ==
  /\ last.op = "listRoot" /\ last.status = 200 /\ last.folders # {}
  /\ EnvelopeKeys \subseteq last.keys
  /\ last.rfolder = NoName /\ last.rfile = NoName /\ last.url = NullUrl

\* ---------------------------------------------------------------- C30
MkdirReq(f, e) == Req("mkdir", "", f, NoName, NoName, e, 0)

\* C30: a mkdir of a folder that already exists in the root its expose flag
\* selects succeeds and leaves the folder's files and both roots as they
\* were; and from any state, a second identical mkdir right after the first
\* gives the same response and the same disk as the first alone.
C30_CreateFolderIdempotent ==
  /\ (last.op = "mkdir" /\ last.status # 401 /\ last.folder \in Folders
        /\ pathExists(pre, baseDir(last.expose), last.folder, NoName))
       => (last.status = 200 /\ World = pre)
  /\ \A f \in Folders, e \in BOOLEAN :
       LET once == Handle(World, MkdirReq(f, e))
           twice == Handle(once.w, MkdirReq(f, e))
       IN /\ once.m.status = 200
          /\ twice = once
          /\ pathExists(World, baseDir(e), f, NoName) => once.w = World

\* A mkdir has just succeeded on a folder that already held a file in the
\* selected root.
C30_Witness ==
  /\ last.op = "mkdir" /\ last.status = 200
  /\ pathExists(pre, baseDir(last.expose), last.folder, FA)
  /\ pathExists(World, baseDir(last.expose), last.folder, FA)
  /\ World = pre

\* ---------------------------------------------------------------- C29
\* The awaited filesystem calls on the longest path through each handler,
\* the four of fs.move counted one by one.
StepLimit(op) ==
  CASE op = "upload" -> 2
    [] op = "mkdir" -> 1
    [] op = "delete" -> 4
    [] op \in {"expose", "unexpose", "rename", "listRoot"} -> 6
    [] op = "listFolder" -> 4
    [] op = "serve" -> 3
    [] OTHER -> 0

running(m) == m.pc \notin {"idle", "done"}

\* A request is answered when, and only when, its handler is done; while it
\* runs it is within its step limit and its next step can be taken whatever
\* the other request is doing.
progressing(p) ==
  /\ procs[p].nsteps <= StepLimit(procs[p].op)
  /\ running(procs[p]) =>
       /\ procs[p].nsteps < StepLimit(procs[p].op)
       /\ procs[p].status = 0
       /\ ENABLED ProcStep(p, procs[p].op)
  /\ procs[p].pc = "done" => procs[p].status \in {200, 400, 404, 500}

\* A step of a request is one more filesystem call of its own handler, and
\* an answered request takes no further step and keeps its answer.
linear(p) ==
  /\ procs[p].pc = "done" => procs'[p] = procs[p]
  /\ (running(procs[p]) /\ procs'[p] # procs[p]) =>
       (procs'[p].nsteps = procs[p].nsteps + 1 /\ procs'[p].op = procs[p].op)

\* C29: under every interleaving of two admitted requests, each performs a
\* bounded linear sequence of filesystem steps and then answers exactly once
\* (200, 400, 404 or 500); it never waits for the other request, is never
\* blocked by it, and never goes back to a step it has taken.
C29_BoundedLinearOneResponse ==
  /\ [](\A p \in Procs : progressing(p))
  /\ [][\A p \in Procs : linear(p)]_vars

\* Both requests have answered after interleaved steps: an expose that took
\* the longest path of its handler, beside a request that took at least two
\* steps and did not succeed.
C29_Witness ==
  \E p \in Procs, q \in Procs :
    /\ procs[p].pc = "done" /\ procs[p].op = "expose"
    /\ procs[p].nsteps = StepLimit("expose")
    /\ procs[q].pc = "done" /\ procs[q].nsteps >= 2 /\ procs[q].status # 200
    /\ World # world0

\* ---------------------------------------------------------------- C31
\* C31 (as claimed): a request answered 400 leaves both roots exactly as they
\* were before it: no folder or file is created, moved or removed.
C31_ClientErrorChangesNothing == last.status = 400 => World = pre

\* ---------------------------------------------------------------- C32
\* C32 (as claimed): when a folder deleteItem(f) that ran beside an expose or
\* unexpose of f has answered success and both calls are done, f is in
\* neither root.
C32_DeletedBesideToggleIsGone ==
  \A p \in Procs, q \in Procs :
    (/\ isFolderDelete(procs[p]) /\ procs[p].pc = "done" /\ procs[p].status = 200
     /\ isToggle(procs[q]) /\ procs[q].pc = "done")
      => ~hasFolder(World, procs[p].folder)

\* ---------------------------------------------------------------- C33
\* C33 (as claimed): an expose or unexpose answers 404 only if at some
\* instant during the call the folder was in neither root; beside a
\* concurrent expose or unexpose that keeps the folder in some root at every
\* instant, neither call answers 404.
C33_NotFoundOnlyIfAbsent ==
  \A p \in Procs :
    (isToggle(procs[p]) /\ procs[p].status = 404) => absent[p]

\* ---------------------------------------------------------------- C34
\* A path is the sequence of its components; the component of a root is
\* <<"public">> or <<"private">>.
RootPaths == {<<<<r>>>> : r \in Roots}

\* The parts of a name between its '/' separators.
RECURSIVE segments(_, _)
segments(s, cur) ==
  IF s = << >> THEN <<cur>>
  ELSE IF Head(s) = "/" THEN <<cur>> \o segments(Tail(s), << >>)
  ELSE segments(Tail(s), Append(cur, Head(s)))

\* path.normalize: empty and '.' components are dropped, a '..' takes back
\* the component before it, and stays when there is none to take back.
RECURSIVE normalize(_, _)
normalize(comps, acc) ==
  IF comps = << >> THEN acc
  ELSE IF Head(comps) \in {<< >>, <<".">>} THEN normalize(Tail(comps), acc)
  ELSE IF Head(comps) = DotDot /\ acc # << >> /\ acc[Len(acc)] # DotDot
    THEN normalize(Tail(comps), SubSeq(acc, 1, Len(acc) - 1))
  ELSE normalize(Tail(comps), Append(acc, Head(comps)))

\* path.join(r, f, n), and path.join(r, f) for n = NoName.
pathJoin(r, f, n) == normalize(<<<<r>>>> \o segments(f, << >>) \o segments(n, << >>), << >>)

\* path.dirname(p)
dirname(p) == SubSeq(p, 1, Len(p) - 1)

\* The paths the filesystem calls of an admitted handler name, in whichever
\* root it resolves the item (the entries a readdir returns are single
\* components of a listed directory and are left out).
handlerPaths(m) ==
  CASE m.op = "upload" ->
         {pathJoin(baseDir(m.expose), m.folder, NoName),
          pathJoin(baseDir(m.expose), m.folder, m.file)}
    [] m.op = "mkdir" -> {pathJoin(baseDir(m.expose), m.folder, NoName)}
    [] m.op = "delete" -> {pathJoin(r, m.folder, m.file) : r \in Roots}
    [] m.op \in {"expose", "unexpose"} ->
         {pathJoin(r, m.folder, NoName) : r \in Roots}
           \cup {dirname(pathJoin(baseDir(m.op = "expose"), m.folder, NoName))}
    [] m.op = "rename" /\ m.type = "file" ->
         UNION {{pathJoin(r, m.folder, m.file), pathJoin(r, m.folder, m.newName),
                 dirname(pathJoin(r, m.folder, m.newName))} : r \in Roots}
    [] m.op = "rename" ->
         UNION {{pathJoin(r, m.folder, NoName), pathJoin(r, m.newName, NoName),
                 dirname(pathJoin(r, m.newName, NoName))} : r \in Roots}
    [] m.op = "listFolder" -> {pathJoin(r, m.folder, NoName) : r \in Roots}
    [] m.op = "listRoot" -> RootPaths
    [] OTHER -> \* serve: the router's handler, once validatePath has passed
         IF validatePath(m.folder, m.file).ok
           THEN {pathJoin("public", m.folder, m.file)} ELSE {}

\* express.static (send) refuses a URL path with a '..' segment or, with
\* dotfiles: 'deny', a segment that begins with a dot; any other path of a
\* request app.js lets through it looks up under public/ before the router
\* sees the request.
staticPaths(m) ==
  LET segs == segments(m.folder, << >>) \o segments(m.file, << >>) IN
    IF m.op = "serve" /\ m.pc = "static" /\ \A i \in 1..Len(segs) : ~startsWithDot(segs[i])
      THEN {pathJoin("public", m.folder, m.file)} ELSE {}

\* Every operation on the names of arg, each name in every position.
ArgReqs ==
  {Req("upload", "", arg.folder, arg.filename, NoName, e, 1) : e \in BOOLEAN}
    \cup {Req("mkdir", "", arg.folder, NoName, NoName, e, 0) : e \in BOOLEAN}
    \cup {Req(op, "", arg.folder, NoName, NoName, FALSE, 0) :
            op \in {"delete", "expose", "unexpose", "listFolder"}}
    \cup {Req("delete", "", arg.folder, arg.filename, NoName, FALSE, 0),
          Req("rename", "file", arg.folder, arg.filename, FA, FALSE, 0),
          Req("rename", "file", FA, FA, arg.filename, FALSE, 0),
          Req("rename", "file", arg.folder, FA, arg.filename, FALSE, 0),
          Req("rename", "folder", arg.folder, NoName, FA, FALSE, 0),
          Req("rename", "folder", FA, NoName, arg.folder, FALSE, 0),
          Req("listRoot", "", NoName, NoName, NoName, FALSE, 0),
          Req("serve", "", arg.folder, arg.filename, NoName, FALSE, 0)}

\* The handler of the request goes on to its filesystem calls.
admitted(req) == Receive(GoodHeader, req).pc # "done"
\* The folder names the request carries.
foldersOf(req) ==
  IF req.op = "rename" /\ req.type = "folder" THEN {req.folder, req.newName}
  ELSE {req.folder}
\* p is public/<f> or private/<f>, or lies below it, for a folder f of the
\* request that is in the grammar.
inFolder(p, req) ==
  /\ Len(p) >= 2
  /\ <<p[1]>> \in RootPaths
  /\ p[2] \in foldersOf(req) /\ inGrammar(p[2])
insideRoots(p) == Len(p) >= 1 /\ <<p[1]>> \in RootPaths /\ \A i \in 1..Len(p) : p[i] # DotDot

\* C34 (as claimed): for the names validatePath has been applied to, every
\* path an operation on them creates, writes, moves, removes or reads lies
\* inside public/<folder>/ or private/<folder>/ for a folder that passed
\* validation, or is one of the two roots in listRoot.
C34_PathsInsideFolder ==
  called =>
    \A req \in ArgReqs : \A m \in {Receive(GoodHeader, req)} :
      /\ m.pc # "done" =>
           \A p \in handlerPaths(m) :
             inFolder(p, req) \/ (req.op = "listRoot" /\ p \in RootPaths)
      /\ \A p \in staticPaths(m) : inFolder(p, req)

\* C34 (amended): for the names validatePath has been applied to, every
\* path a handler's filesystem calls name lies inside
\* public/<folder>/ or private/<folder>/ for a folder that passed
\* validation, or is one of the two roots themselves (listRoot, and the
\* ensureDir / mkdirp of expose, unexpose and a folder rename); the static
\* middleware of GET /public looks a path up before validation, but only
\* under public/; and no input makes any of them name a path outside the
\* two roots.
C34_PathsInsideRoots ==
  called =>
    \A req \in ArgReqs : \A m \in {Receive(GoodHeader, req)} :
      /\ m.pc # "done" =>
           \A p \in handlerPaths(m) :
             \/ inFolder(p, req) /\ insideRoots(p)
             \/ /\ p \in RootPaths
                /\ req.op \in {"listRoot", "expose", "unexpose"}
                     \/ (req.op = "rename" /\ req.type = "folder")
      /\ \A p \in staticPaths(m) :
           insideRoots(p) /\ Len(p) >= 2 /\ p[1] = <<"public">>

\* validatePath has accepted a filename with a '..' -free separator in it,
\* the upload of it is admitted, and the path it writes is inside its folder.
C34_Witness ==
  /\ called /\ ret.ok
  /\ arg.folder = FA /\ arg.filename = <<"a", ".", "/">>
  /\ admitted(Req("upload", "", arg.folder, arg.filename, NoName, FALSE, 1))
  /\ pathJoin("private", arg.folder, arg.filename) = <<<<"private">>, FA, <<"a", ".">>>>

\* ---------------------------------------------------------------- C35
\* The folder names a request addresses: its folder and, for a rename, the
\* new name.
addressedFolders(m) == {m.folder, m.newName}
isFileOp(m) == m.op = "upload" \/ (m.op = "delete" /\ m.file # NoName)

keepsRoots(w, w2) == \A r \in Roots : w.roots[r] => w2.roots[r]

\* C36: listFolder leaves the disk exactly as it was, and listRoot leaves
\* every folder and file of both roots as it was (so every folder keeps its
\* visibility) and at most creates a root directory that was missing; both
\* for the request just answered and for a listing of any state reached.
C36_ListingsReadOnly ==
  /\ last.op = "listFolder" => World = pre
  /\ last.op = "listRoot" => (fs = pre.fs /\ keepsRoots(pre, World))
  /\ \A f \in Folders : Handle(World, ListFolderReq(f)).w = World
  /\ LET l == Handle(World, ListRootReq) IN
       /\ l.w.fs = fs /\ keepsRoots(World, l.w)
       /\ \A f \in Folders : listedVisibility(l.w, f) = listedVisibility(World, f)

\* GET /list has just listed an exposed folder with its files untouched, and
\* has created the private root, which was missing, and nothing else.
C36_Witness ==
  /\ last.op = "listRoot" /\ last.status = 200
  /\ fs = pre.fs
  /\ \E e \in last.folders : e[2] = "exposed"
  /\ ~pre.roots["private"] /\ roots["private"]

\* ---------------------------------------------------------------- C37
isFileRename(m) == m.op = "rename" /\ m.type = "file"
isFileDelete(m) == m.op = "delete" /\ m.file # NoName

\* C37 (as claimed): a file delete or file rename of f/n succeeds only if a
\* listFolder(f) made just before it would have listed n, and it acts on
\* the copy of n in the root that listFolder(f) resolves f to.
C37_FileAndFolderResolutionAgree ==
  ((isFileDelete(last) \/ isFileRename(last)) /\ last.status = 200) =>
    LET l == Handle(pre, ListFolderReq(last.folder)).m IN
      /\ l.status = 200
      /\ last.file \in {e[1] : e \in l.files}
      /\ last.src = l.src

\* ---------------------------------------------------------------- C38
\* The roots that hold folder f on disk w.
rootsOf(w, f) == {r \in Roots : pathExists(w, r, f, NoName)}

\* C38: after a successful expose(f) the folder is in the exposed root only,
\* after a successful unexpose(f) in the hidden root only, and after a
\* successful folder deleteItem(f) in neither, also when f was in both roots
\* before the call.
C38_OneRootAfterToggleOrDelete ==
  last.status = 200 =>
    /\ last.op = "expose" => rootsOf(World, last.folder) = {"public"}
    /\ last.op = "unexpose" => rootsOf(World, last.folder) = {"private"}
    /\ isFolderDelete(last) => rootsOf(World, last.folder) = {}

\* An expose has just succeeded on a folder that was in both roots, with a
\* file in its hidden copy: the folder is now in public/ only, with that file.
C38_Witness ==
  /\ last.op = "expose" /\ last.status = 200
  /\ rootsOf(pre, last.folder) = Roots
  /\ \E n \in Files :
       /\ pathExists(pre, "private", last.folder, n)
       /\ pathExists(World, "public", last.folder, n)
  /\ rootsOf(World, last.folder) = {"public"}

\* ---------------------------------------------------------------- C39
\* C39: from any reached state, for a folder that is in the hidden root
\* only, expose followed by unexpose both succeed and leave the disk exactly
\* as it was; for a folder that is in the exposed root only, unexpose
\* followed by expose both succeed and leave every folder and every file of
\* both roots, with its content, as it was (the pair creates the private
\* root directory when it was missing).
C39_ToggleRoundTrip ==
  \A f \in Folders :
    /\ rootsOf(World, f) = {"private"} =>
         LET e == Handle(World, ToggleReq("expose", f))
             u == Handle(e.w, ToggleReq("unexpose", f)) IN
           /\ e.m.status = 200 /\ u.m.status = 200
           /\ rootsOf(e.w, f) = {"public"}
           /\ u.w = World
    /\ rootsOf(World, f) = {"public"} =>
         LET u == Handle(World, ToggleReq("unexpose", f))
             e == Handle(u.w, ToggleReq("expose", f)) IN
           /\ u.m.status = 200 /\ e.m.status = 200
           /\ rootsOf(u.w, f) = {"private"}
           /\ e.w.fs = fs /\ keepsRoots(World, e.w)

\* A hidden folder with a file has just been exposed, beside another folder,
\* and the unexpose that follows restores the disk the expose found.
C39_Witness ==
  /\ last.op = "expose" /\ last.status = 200
  /\ rootsOf(pre, last.folder) = {"private"}
  /\ fileNames(pre, "private", last.folder) # {}
  /\ World # pre
  /\ Handle(World, ToggleReq("unexpose", last.folder)).w = pre

====
